---- MODULE Spec2Model ----
(***************************************************************************)
(* Model of the authenticated request / session lifecycle of pygindex's   *)
(* IGClient (src/src/pygindex/client.py), of its configuration classes,   *)
(* and of the command line layer (src/src/pygindex/cli.py, utils.py).      *)
(*                                                                         *)
(* Python values are modelled as follows:                                  *)
(*   - str            : a TLA+ string                                      *)
(*   - None (a value) : the string None below                              *)
(*   - dict           : a function from its keys to its values; a dict     *)
(*                      argument that is None or {} is the empty function  *)
(*                      (the code treats both alike: "if headers:")        *)
(*   - int(time.time()): the integer clock now                             *)
(***************************************************************************)
EXTENDS Integers, Sequences, FiniteSets, TLC

\* ------------------------------------------------------------------ bounds
MaxTime == 3

\* -------------------------------------------------------- program constants
None == "<None>"

EmptyDict == <<>>

\* the callers of one client instance; the sequential specification runs
\* caller 1 only
Callers == {1, 2}

SeqCallers == {1}

\* ------------------------------------------------------------- dict helpers
\* dict.update(): the keys of e override those of d
DictUpdate(d, e) ==
    [k \in (DOMAIN d) \cup (DOMAIN e) |-> IF k \in DOMAIN e THEN e[k] ELSE d[k]]

\* a test for None only ("is not None")
Truthy_NotNone(v) == v # None

\* Python truthiness of an optional string: None and "" are falsy
Truthy(v) == v # None /\ v # ""

\* int(str) of a decimal string (the Access-Control-Max-Age header carries a
\* number of seconds)
IntOfStr(s) ==
    CASE s = "0" -> 0
      [] s = "1" -> 1
      [] s = "2" -> 2
      [] s = "3" -> 3

\* ------------------------------------------------------------ IGAPIConfig
\* a table with the two base URLs exchanged
platform_urls_Swapped ==
    [live |-> "https://demo-api.ig.com/gateway/deal",
     demo |-> "https://api.ig.com/gateway/deal"]

\* client.py:99-102, models.py:142-145
platform_urls ==
    [live |-> "https://api.ig.com/gateway/deal",
     demo |-> "https://demo-api.ig.com/gateway/deal"]

session_url(a) == a.base_url \o "/session"

accounts_url(a) == a.base_url \o "/accounts"

positions_url(a) == a.base_url \o "/positions"

markets_url(a) == a.base_url \o "/markets"

\* models.py:194-201
prices_url(a) == a.base_url \o "/prices"

\* ------------------------------------------------------------- IGUserAuth
auth_req_headers(u) ==
    [k \in {"X-IG-API-KEY", "Content-Type"} |->
        IF k = "X-IG-API-KEY" THEN u.api_key ELSE "application/json"]

auth_req_data(u) ==
    [k \in {"identifier", "password", "encryptedPassword"} |->
        CASE k = "identifier" -> u.username
          [] k = "password" -> u.password
          [] k = "encryptedPassword" -> None]

\* -------------------------------------------------------------- IGSession
IGSession == [cst |-> None, security_token |-> None, expires |-> 0]

\* ------------------------------------------------- environment (inputs)
\* tokens the server may put in an authentication response
SrvTokens == {"", "abc", "xyz"}

\* values of the Access-Control-Max-Age header
SrvHints == {"1", "2"}

\* response headers of the authentication POST: each of the three headers
\* may be present or not
AuthRespHeaders ==
    UNION { [ks -> SrvTokens \cup SrvHints] :
              ks \in SUBSET {"CST", "X-SECURITY-TOKEN", "Access-Control-Max-Age"} }

WellFormedAuthResp(h) ==
    /\ ("CST" \in DOMAIN h => h["CST"] \in SrvTokens)
    /\ ("X-SECURITY-TOKEN" \in DOMAIN h => h["X-SECURITY-TOKEN"] \in SrvTokens)
    /\ ("Access-Control-Max-Age" \in DOMAIN h
            => h["Access-Control-Max-Age"] \in SrvHints)

\* decoded JSON bodies of a resource response; requests does not raise on a
\* 401, its error body is decoded like any other
RespData ==
    { [k \in {"status"} |-> "ok"],
      [k \in {"errorCode"} |-> "error.security.client-token-invalid"] }

\* headers of a resource response
HttpRespHeaders == { [k \in {"h_key"} |-> "h_value"] }

\* os.environ, restricted to the variables the package reads
EnvVars == {"IG_API_KEY", "IG_USERNAME", "IG_PASSWORD", "IG_PLATFORM"}

\* headers a caller may pass to _authenticated_request
CallerHeaders ==
    { [k \in {"version"} |-> "3"],
      [k \in {"CST", "X-SECURITY-TOKEN", "X-IG-API-KEY", "Content-Type",
              "version"} |->
          CASE k = "CST" -> "callercst"
            [] k = "X-SECURITY-TOKEN" -> "callertoken"
            [] k = "X-IG-API-KEY" -> "callerkey"
            [] k = "Content-Type" -> "text/plain"
            [] k = "version" -> "3"] }

SearchTerms == {"test"}

TargetUrl == "https://example.com"

\* paths a configuration is loaded from; the first is the default of
\* Configuration.from_file (utils.py:139)
DefaultConfigPath == "~/.pygindex.yaml"

ConfigPaths == {DefaultConfigPath, "/etc/pygindex.yaml"}

\* os.path.expanduser with HOME=/home/user
ExpandUser(path) ==
    IF path = "~/.pygindex.yaml" THEN "/home/user/.pygindex.yaml" ELSE path

FilePaths == { ExpandUser(path) : path \in ConfigPaths }

\* ------------------------------------------------------------------ state
VARIABLES
    now,      \* int(time.time())
    auth,     \* IGClient._auth  : IGUserAuth
    api,      \* IGClient._api   : IGAPIConfig
    session,  \* IGClient._session : IGSession
    pc,       \* per caller: position inside _authenticated_request
    args,     \* per caller: arguments of the running _authenticated_request
    resp,     \* per caller: req.headers inside _authenticate
    pre,      \* per caller: session.expires as _authenticate found it
    authTime, \* per caller: time.time() as read at client.py:288
    valid,    \* per caller: what _authentication_is_valid returned at client.py:263
    hdrs,     \* per caller: the local hdrs of _authenticated_request
    calls,    \* per caller: the transport calls of the running invocation
    nauth,    \* per caller: times _authenticate was entered by the invocation
    result,   \* per caller: what the invocation returned or raised
    response, \* per caller: the IGResponse _request returned at client.py:276
    first,    \* per caller: the invocation is the first one made on the client
    env,      \* os.environ
    obj,      \* the last object built by a constructor, or the error it raised
    wire,     \* the call IGClient._request made on the requests module
    ret,      \* what IGClient._request returned or raised
    fs,       \* the configuration file: absent, or its YAML content
    proc      \* the last call into the command line layer and how it ended

\* the state outside the client: the environment, the results of the
\* constructors and of the static transport helper, the configuration file
\* and the command line layer
partVars == <<env, obj, wire, ret, fs, proc>>

vars == <<now, auth, api, session, pc, args, resp, pre, authTime, valid,
          hdrs, calls, nauth, result, response, first, env, obj, wire, ret,
          fs, proc>>

NoArgs == [op |-> "none", url |-> "", method |-> "", headers |-> EmptyDict,
           data |-> EmptyDict]

NoResult == [kind |-> "none"]

NoResponse == [kind |-> "none"]

NoObject == [kind |-> "none"]

NoWire == <<>>

\* a path at which there is no file: open() raises FileNotFoundError
NoFile == [kind |-> "absent"]

NoProcess == [kind |-> "none"]

Resting == {"idle", "done", "raised"}

\* ---------------------------------------------------------------- IGClient
\* a validity check that looks at the tokens only
AuthenticationIsValid_NoExpiry(s, current_time) ==
    IF ~(Truthy(s.cst) /\ Truthy(s.security_token)) THEN FALSE
    ELSE TRUE

\* a validity check that forgets the security token
AuthenticationIsValid_CstOnly(s, current_time) ==
    IF s.expires < current_time THEN FALSE
    ELSE IF ~Truthy(s.cst) THEN FALSE
    ELSE TRUE

\* IGClient._authentication_is_valid
AuthenticationIsValid(s, current_time) ==
    IF s.expires < current_time THEN FALSE
    ELSE IF ~(Truthy(s.cst) /\ Truthy(s.security_token)) THEN FALSE
    ELSE TRUE

\* domain operations in which get_positions was copied from get_accounts
\* without changing the URL
OpArgs_CopyPaste(a) ==
    { [op |-> "get_session_details", url |-> session_url(a), method |-> "get",
       headers |-> EmptyDict, data |-> EmptyDict],
      [op |-> "get_accounts", url |-> accounts_url(a), method |-> "get",
       headers |-> EmptyDict, data |-> EmptyDict],
      [op |-> "get_positions", url |-> accounts_url(a), method |-> "get",
       headers |-> EmptyDict, data |-> EmptyDict] }
    \cup
    { [op |-> "search_markets", url |-> markets_url(a), method |-> "get",
       headers |-> EmptyDict, data |-> [k \in {"searchTerm"} |-> term]] :
         term \in SearchTerms }
    \cup
    { [op |-> "request", url |-> TargetUrl, method |-> "post",
       headers |-> h, data |-> EmptyDict] : h \in CallerHeaders }

\* the arguments the domain operations pass to _authenticated_request
OpArgs(a) ==
    { [op |-> "get_session_details", url |-> session_url(a), method |-> "get",
       headers |-> EmptyDict, data |-> EmptyDict],
      [op |-> "get_accounts", url |-> accounts_url(a), method |-> "get",
       headers |-> EmptyDict, data |-> EmptyDict],
      [op |-> "get_positions", url |-> positions_url(a), method |-> "get",
       headers |-> EmptyDict, data |-> EmptyDict] }
    \cup
    { [op |-> "search_markets", url |-> markets_url(a), method |-> "get",
       headers |-> EmptyDict, data |-> [k \in {"searchTerm"} |-> term]] :
         term \in SearchTerms }
    \cup
    { [op |-> "request", url |-> TargetUrl, method |-> "post",
       headers |-> h, data |-> EmptyDict] : h \in CallerHeaders }

\* client.py:224-227
Init ==
    /\ now = 1
    /\ auth = [api_key |-> "api_key", username |-> "username",
               password |-> "password"]
    /\ api \in { [platform |-> p, base_url |-> platform_urls[p]] : p \in {"demo"} }
    /\ session = IGSession
    /\ pc = [t \in Callers |-> "idle"]
    /\ args = [t \in Callers |-> NoArgs]
    /\ resp = [t \in Callers |-> EmptyDict]
    /\ pre = [t \in Callers |-> 0]
    /\ authTime = [t \in Callers |-> 0]
    /\ valid = [t \in Callers |-> FALSE]
    /\ hdrs = [t \in Callers |-> EmptyDict]
    /\ calls = [t \in Callers |-> <<>>]
    /\ nauth = [t \in Callers |-> 0]
    /\ result = [t \in Callers |-> NoResult]
    /\ response = [t \in Callers |-> NoResponse]
    /\ first = [t \in Callers |-> FALSE]
    /\ env = EmptyDict
    /\ obj = NoObject
    /\ wire = NoWire
    /\ ret = NoResult
    /\ fs = [p \in FilePaths |-> NoFile]
    /\ proc = NoProcess

\* the clock advances
Tick ==
    /\ now < MaxTime
    /\ now' = now + 1
    /\ UNCHANGED <<auth, api, session, pc, args, resp, pre, authTime, valid,
                   hdrs, calls, nauth, result>>
    /\ UNCHANGED <<response, first, partVars>>

\* a request that authenticates when the check succeeded (a lost "not")
AfterCheck_Inverted(v) == IF v THEN "auth_post" ELSE "merge"

\* a request that authenticates whatever the validity check said
AfterCheck_Always(v) == "auth_post"

\* client.py:263-264: _authenticate runs only when the check returned False
AfterCheck(v) == IF ~v THEN "auth_post" ELSE "merge"

\* client.py:259-264: enter _authenticated_request, evaluate the validity check
Invoke(t) ==
    /\ pc[t] \in Resting
    /\ \E a \in OpArgs(api) :
          args' = [args EXCEPT ![t] = a]
    /\ valid' = [valid EXCEPT ![t] = AuthenticationIsValid(session, now)]
    /\ pc' = [pc EXCEPT ![t] = AfterCheck(valid'[t])]
    /\ resp' = [resp EXCEPT ![t] = EmptyDict]
    /\ pre' = [pre EXCEPT ![t] = 0]
    /\ authTime' = [authTime EXCEPT ![t] = 0]
    /\ hdrs' = [hdrs EXCEPT ![t] = EmptyDict]
    /\ calls' = [calls EXCEPT ![t] = <<>>]
    /\ nauth' = [nauth EXCEPT ![t] = 0]
    /\ result' = [result EXCEPT ![t] = NoResult]
    /\ UNCHANGED <<now, auth, api, session>>
    /\ response' = [response EXCEPT ![t] = NoResponse]
    /\ first' = [first EXCEPT ![t] = \A u \in Callers : pc[u] = "idle"]
    /\ UNCHANGED <<env, obj, wire, ret, fs, proc>>

\* an authentication call that also sends the stored session tokens
AuthCall_WithTokens(t) ==
    [url |-> session_url(api), method |-> "post",
     headers |-> DictUpdate([k \in {"CST", "X-SECURITY-TOKEN"} |->
                               IF k = "CST" THEN session.cst
                               ELSE session.security_token],
                            auth_req_headers(auth)),
     data |-> auth_req_data(auth)]

\* client.py:283-285: _authenticate posts the credentials to the session URL
AuthCall(t) ==
    [url |-> session_url(api), method |-> "post",
     headers |-> auth_req_headers(auth), data |-> auth_req_data(auth)]

\* an authentication that waits while another caller is inside _authenticate
AuthPost_Locked(t) ==
    /\ pc[t] = "auth_post"
    /\ \A u \in Callers \ {t} :
          pc[u] \notin {"auth_expires", "auth_cst", "auth_token"}
    /\ calls' = [calls EXCEPT ![t] = Append(@, AuthCall(t))]
    /\ nauth' = [nauth EXCEPT ![t] = @ + 1]
    /\ pre' = [pre EXCEPT ![t] = session.expires]
    /\ \/ \E h \in AuthRespHeaders :
            /\ WellFormedAuthResp(h)
            /\ resp' = [resp EXCEPT ![t] = h]
            /\ pc' = [pc EXCEPT ![t] = "auth_expires"]
            /\ UNCHANGED result
       \/ /\ pc' = [pc EXCEPT ![t] = "raised"]
          /\ result' = [result EXCEPT ![t] =
                          [kind |-> "raised", error |-> "TransportError"]]
          /\ UNCHANGED resp
    /\ UNCHANGED <<now, auth, api, session, args, authTime, valid, hdrs>>
    /\ UNCHANGED <<response, first, partVars>>

AuthPost(t) ==
    /\ pc[t] = "auth_post"
    /\ calls' = [calls EXCEPT ![t] = Append(@, AuthCall(t))]
    /\ nauth' = [nauth EXCEPT ![t] = @ + 1]
    /\ pre' = [pre EXCEPT ![t] = session.expires]
    /\ \/ \E h \in AuthRespHeaders :
            /\ WellFormedAuthResp(h)
            /\ resp' = [resp EXCEPT ![t] = h]
            /\ pc' = [pc EXCEPT ![t] = "auth_expires"]
            /\ UNCHANGED result
       \/ \* requests or req.json() raises
          /\ pc' = [pc EXCEPT ![t] = "raised"]
          /\ result' = [result EXCEPT ![t] =
                          [kind |-> "raised", error |-> "TransportError"]]
          /\ UNCHANGED resp
    /\ UNCHANGED <<now, auth, api, session, args, authTime, valid, hdrs>>
    /\ UNCHANGED <<response, first, partVars>>

\* an expiry that forgets the current time
ExpiresAfter_HintOnly(current_time, max_age) == IntOfStr(max_age)

\* client.py:287-289: int(time.time() + int(req.headers[...]))
ExpiresAfter(current_time, max_age) == current_time + IntOfStr(max_age)

\* an authentication that gives the session a default lifetime of one second
\* when the hint header is missing
AuthSetExpires_DefaultTtl(t) ==
    /\ pc[t] = "auth_expires"
    /\ IF "Access-Control-Max-Age" \in DOMAIN resp[t]
       THEN /\ session' = [session EXCEPT !.expires =
                  ExpiresAfter(now, resp[t]["Access-Control-Max-Age"])]
            /\ authTime' = [authTime EXCEPT ![t] = now]
       ELSE /\ session' = [session EXCEPT !.expires = now + 1]
            /\ UNCHANGED authTime
    /\ pc' = [pc EXCEPT ![t] = "auth_cst"]
    /\ UNCHANGED <<now, auth, api, args, resp, pre, valid, hdrs, calls, nauth,
                   result>>
    /\ UNCHANGED <<response, first, partVars>>

\* an authentication that falls back to "expires now" without the hint header
AuthSetExpires_Default(t) ==
    /\ pc[t] = "auth_expires"
    /\ IF "Access-Control-Max-Age" \in DOMAIN resp[t]
       THEN /\ session' = [session EXCEPT !.expires =
                  ExpiresAfter(now, resp[t]["Access-Control-Max-Age"])]
            /\ authTime' = [authTime EXCEPT ![t] = now]
       ELSE /\ session' = [session EXCEPT !.expires = now]
            /\ UNCHANGED authTime
    /\ pc' = [pc EXCEPT ![t] = "auth_cst"]
    /\ UNCHANGED <<now, auth, api, args, resp, pre, valid, hdrs, calls, nauth,
                   result>>
    /\ UNCHANGED <<response, first, partVars>>

\* client.py:286-289
AuthSetExpires(t) ==
    /\ pc[t] = "auth_expires"
    /\ IF "Access-Control-Max-Age" \in DOMAIN resp[t]
       THEN /\ session' = [session EXCEPT !.expires =
                  ExpiresAfter(now, resp[t]["Access-Control-Max-Age"])]
            /\ authTime' = [authTime EXCEPT ![t] = now]
       ELSE UNCHANGED <<session, authTime>>
    /\ pc' = [pc EXCEPT ![t] = "auth_cst"]
    /\ UNCHANGED <<now, auth, api, args, resp, pre, valid, hdrs, calls, nauth,
                   result>>
    /\ UNCHANGED <<response, first, partVars>>

\* an authentication that puts the old expiry back when the CST header is
\* missing
AuthSetCst_Rollback(t) ==
    /\ pc[t] = "auth_cst"
    /\ IF "CST" \in DOMAIN resp[t]
       THEN /\ session' = [session EXCEPT !.cst = resp[t]["CST"]]
            /\ pc' = [pc EXCEPT ![t] = "auth_token"]
            /\ UNCHANGED result
       ELSE /\ pc' = [pc EXCEPT ![t] = "raised"]
            /\ result' = [result EXCEPT ![t] =
                            [kind |-> "raised", error |-> "KeyError"]]
            /\ session' = [session EXCEPT !.expires = pre[t]]
    /\ UNCHANGED <<now, auth, api, args, resp, pre, authTime, valid, hdrs, calls,
                   nauth>>
    /\ UNCHANGED <<response, first, partVars>>

\* client.py:290
AuthSetCst(t) ==
    /\ pc[t] = "auth_cst"
    /\ IF "CST" \in DOMAIN resp[t]
       THEN /\ session' = [session EXCEPT !.cst = resp[t]["CST"]]
            /\ pc' = [pc EXCEPT ![t] = "auth_token"]
            /\ UNCHANGED result
       ELSE /\ pc' = [pc EXCEPT ![t] = "raised"]
            /\ result' = [result EXCEPT ![t] =
                            [kind |-> "raised", error |-> "KeyError"]]
            /\ UNCHANGED session
    /\ UNCHANGED <<now, auth, api, args, resp, pre, authTime, valid, hdrs, calls,
                   nauth>>
    /\ UNCHANGED <<response, first, partVars>>

\* an authentication that swallows the missing X-SECURITY-TOKEN header
AuthSetToken_Swallow(t) ==
    /\ pc[t] = "auth_token"
    /\ IF "X-SECURITY-TOKEN" \in DOMAIN resp[t]
       THEN session' = [session EXCEPT
                           !.security_token = resp[t]["X-SECURITY-TOKEN"]]
       ELSE UNCHANGED session
    /\ pc' = [pc EXCEPT ![t] = "merge"]
    /\ UNCHANGED <<now, auth, api, args, resp, pre, authTime, valid, hdrs, calls,
                   nauth, result>>
    /\ UNCHANGED <<response, first, partVars>>

\* client.py:291
AuthSetToken(t) ==
    /\ pc[t] = "auth_token"
    /\ IF "X-SECURITY-TOKEN" \in DOMAIN resp[t]
       THEN /\ session' = [session EXCEPT
                              !.security_token = resp[t]["X-SECURITY-TOKEN"]]
            /\ pc' = [pc EXCEPT ![t] = "merge"]
            /\ UNCHANGED result
       ELSE /\ pc' = [pc EXCEPT ![t] = "raised"]
            /\ result' = [result EXCEPT ![t] =
                            [kind |-> "raised", error |-> "KeyError"]]
            /\ UNCHANGED session
    /\ UNCHANGED <<now, auth, api, args, resp, pre, authTime, valid, hdrs, calls,
                   nauth>>
    /\ UNCHANGED <<response, first, partVars>>

\* client.py:265-275: the headers of the resource call
SessionHeaders(s) ==
    [k \in {"CST", "X-SECURITY-TOKEN"} |->
        IF k = "CST" THEN s.cst ELSE s.security_token]

\* a merge in which the caller's headers are applied last
MergeHeaders_CallerLast(headers, s, u) ==
    DictUpdate(DictUpdate(SessionHeaders(s), auth_req_headers(u)), headers)

MergeHeaders(headers, s, u) ==
    DictUpdate(DictUpdate(headers, SessionHeaders(s)), auth_req_headers(u))

\* a merge that updates the caller's own mapping (hdrs = headers, no copy)
Merge_InPlace(t) ==
    /\ pc[t] = "merge"
    /\ hdrs' = [hdrs EXCEPT ![t] = MergeHeaders(args[t].headers, session, auth)]
    /\ args' = [args EXCEPT ![t].headers =
                   IF args[t].headers = EmptyDict THEN EmptyDict
                   ELSE MergeHeaders(args[t].headers, session, auth)]
    /\ pc' = [pc EXCEPT ![t] = "send"]
    /\ UNCHANGED <<now, auth, api, session, resp, pre, authTime, valid,
                   calls, nauth, result>>
    /\ UNCHANGED <<response, first, partVars>>

\* client.py:265-276: copy the caller's headers, then the two updates
Merge(t) ==
    /\ pc[t] = "merge"
    /\ hdrs' = [hdrs EXCEPT ![t] = MergeHeaders(args[t].headers, session, auth)]
    /\ pc' = [pc EXCEPT ![t] = "send"]
    /\ UNCHANGED <<now, auth, api, session, args, resp, pre, authTime, valid,
                   calls, nauth, result>>
    /\ UNCHANGED <<response, first, partVars>>

\* client.py:175-186
IGResponse(data, headers) == [data |-> data, headers |-> headers]

\* client.py:277, 318, 376, 438, 482: _authenticated_request returns the
\* IGResponse, the domain operations return its data
OpReturn(op, req) == IF op = "request" THEN req ELSE req.data

\* client.py:276-277: the resource call and its outcome
ResourceCall(t) ==
    [url |-> args[t].url, method |-> args[t].method,
     headers |-> hdrs[t], data |-> args[t].data]

\* a resource call that drops the session when the transport raises
Send_Invalidate(t) ==
    /\ pc[t] = "send"
    /\ calls' = [calls EXCEPT ![t] = Append(@, ResourceCall(t))]
    /\ \/ \E d \in RespData, h \in HttpRespHeaders :
            /\ pc' = [pc EXCEPT ![t] = "done"]
            /\ response' = [response EXCEPT ![t] = IGResponse(d, h)]
            /\ result' = [result EXCEPT ![t] =
                  [kind |-> "returned",
                   value |-> OpReturn(args[t].op, IGResponse(d, h))]]
            /\ UNCHANGED session
       \/ /\ pc' = [pc EXCEPT ![t] = "raised"]
          /\ result' = [result EXCEPT ![t] =
                          [kind |-> "raised", error |-> "TransportError"]]
          /\ session' = IGSession
          /\ UNCHANGED response
    /\ UNCHANGED <<now, auth, api, args, resp, pre, authTime, valid, hdrs, nauth>>
    /\ UNCHANGED <<first, partVars>>

\* a resource call that re-authenticates and retries when the server rejects
\* the tokens
Send_Retry401(t) ==
    /\ pc[t] = "send"
    /\ calls' = [calls EXCEPT ![t] = Append(@, ResourceCall(t))]
    /\ \/ \E d \in RespData, h \in HttpRespHeaders :
            /\ response' = [response EXCEPT ![t] = IGResponse(d, h)]
            /\ IF "errorCode" \in DOMAIN d
               THEN /\ pc' = [pc EXCEPT ![t] = "auth_post"]
                    /\ UNCHANGED result
               ELSE /\ pc' = [pc EXCEPT ![t] = "done"]
                    /\ result' = [result EXCEPT ![t] =
                          [kind |-> "returned",
                           value |-> OpReturn(args[t].op, IGResponse(d, h))]]
       \/ /\ pc' = [pc EXCEPT ![t] = "raised"]
          /\ result' = [result EXCEPT ![t] =
                          [kind |-> "raised", error |-> "TransportError"]]
          /\ UNCHANGED response
    /\ UNCHANGED <<now, auth, api, session, args, resp, pre, authTime, valid,
                   hdrs, nauth>>
    /\ UNCHANGED <<first, partVars>>

Send(t) ==
    /\ pc[t] = "send"
    /\ calls' = [calls EXCEPT ![t] = Append(@, ResourceCall(t))]
    /\ \/ \E d \in RespData, h \in HttpRespHeaders :
            /\ pc' = [pc EXCEPT ![t] = "done"]
            /\ response' = [response EXCEPT ![t] = IGResponse(d, h)]
            /\ result' = [result EXCEPT ![t] =
                  [kind |-> "returned",
                   value |-> OpReturn(args[t].op, IGResponse(d, h))]]
       \/ /\ pc' = [pc EXCEPT ![t] = "raised"]
          /\ result' = [result EXCEPT ![t] =
                          [kind |-> "raised", error |-> "TransportError"]]
          /\ UNCHANGED response
    /\ UNCHANGED <<now, auth, api, session, args, resp, pre, authTime, valid,
                   hdrs, nauth>>
    /\ UNCHANGED <<first, partVars>>

Step(t) ==
    \/ Invoke(t)
    \/ AuthPost(t)
    \/ AuthSetExpires(t)
    \/ AuthSetCst(t)
    \/ AuthSetToken(t)
    \/ Merge(t)
    \/ Send(t)

Next ==
    \/ Tick
    \/ \E t \in SeqCallers : Step(t)

Spec == Init /\ [][Next]_vars

\* ----------------------------------------------------------------------
\* Two callers sharing one client instance (threads). Every statement of
\* _authenticated_request / _authenticate is a step of its own, and nothing
\* in the code orders the steps of different callers. Both callers run
\* get_accounts(), and the server answers an authentication with one of two
\* complete responses.
ConcResponses ==
    { [k \in {"CST", "X-SECURITY-TOKEN", "Access-Control-Max-Age"} |->
          IF k = "Access-Control-Max-Age" THEN "1" ELSE tok] :
        tok \in {"abc", "xyz"} }

ConcInvoke(t) ==
    /\ Invoke(t)
    /\ args'[t].op = "get_accounts"

ConcAuthPost(t) ==
    /\ AuthPost(t)
    /\ pc'[t] = "auth_expires" => resp'[t] \in ConcResponses

ConcStep(t) ==
    \/ ConcInvoke(t)
    \/ ConcAuthPost(t)
    \/ AuthSetExpires(t)
    \/ AuthSetCst(t)
    \/ AuthSetToken(t)
    \/ Merge(t)
    \/ Send(t)

NextConc ==
    \/ Tick
    \/ \E t \in Callers : ConcStep(t)

SpecConc == Init /\ [][NextConc]_vars

\* ----------------------------------------------------------------------
\* The constructors and the static transport helper, each called on its own
\* (as the tests do) under an environment fixed at start.

clientVars == <<now, auth, api, session, pc, args, resp, pre, authTime, valid,
                hdrs, calls, nauth, result, response, first>>

\* the environments: any subset of the four variables; IG_PLATFORM holds a
\* valid or an unknown platform
Envs ==
    UNION { { e \in [vs -> {"from_IG_API_KEY", "from_IG_USERNAME",
                            "from_IG_PASSWORD", "live", "demo", "foo"}] :
                \A v \in vs : IF v = "IG_PLATFORM"
                               THEN e[v] \in {"live", "demo", "foo"}
                               ELSE e[v] = "from_" \o v } :
            vs \in SUBSET EnvVars }

\* fields(self) of IGUserAuth, in declaration order (client.py:28-30)
UserAuthFields == <<"api_key", "username", "password">>

\* str.upper() on the field names
Upper(name) ==
    CASE name = "api_key" -> "API_KEY"
      [] name = "username" -> "USERNAME"
      [] name = "password" -> "PASSWORD"

\* an environment variable name built without upper()
EnvVarName_NoUpper(name) == "IG_" \o name

\* client.py:36
EnvVarName(name) == "IG_" \o Upper(name)

\* client.py:38-41
MissingMessage(name) ==
    "Required argument '" \o name \o "' or environment variable '"
        \o EnvVarName(name) \o "' not set"

RECURSIVE PostInitAuth_EnvFirst(_, _, _)
\* a constructor in which a set environment variable overrides the argument
PostInitAuth_EnvFirst(self, e, i) ==
    IF i > Len(UserAuthFields) THEN [kind |-> "IGUserAuth", value |-> self]
    ELSE LET name == UserAuthFields[i]
             env_var_name == EnvVarName(name)
         IN  IF env_var_name \in DOMAIN e
             THEN PostInitAuth_EnvFirst([self EXCEPT ![name] = e[env_var_name]],
                                        e, i + 1)
             ELSE IF self[name] = None
                  THEN [kind |-> "ValueError", message |-> MissingMessage(name)]
                  ELSE PostInitAuth_EnvFirst(self, e, i + 1)

RECURSIVE PostInitAuth(_, _, _)
\* client.py:32-42: IGUserAuth.__post_init__, from field i on
PostInitAuth(self, e, i) ==
    IF i > Len(UserAuthFields) THEN [kind |-> "IGUserAuth", value |-> self]
    ELSE LET name == UserAuthFields[i]
             env_var_name == EnvVarName(name)
         IN  IF self[name] = None
             THEN IF env_var_name \notin DOMAIN e
                  THEN [kind |-> "ValueError", message |-> MissingMessage(name)]
                  ELSE PostInitAuth([self EXCEPT ![name] = e[env_var_name]],
                                    e, i + 1)
             ELSE PostInitAuth(self, e, i + 1)

\* arguments of IGUserAuth(...): each field given or left None
UserAuthArgs ==
    [api_key : {None, "arg_api_key"}, username : {None, "arg_username"},
     password : {None, "arg_password"}]

\* IGUserAuth(api_key=..., username=..., password=...)
NewUserAuth ==
    /\ \E given \in UserAuthArgs :
          obj' = [cls |-> "IGUserAuth", given |-> given]
                    @@ PostInitAuth(given, env, 1)
    /\ UNCHANGED <<env, wire, ret, fs, proc>>
    /\ UNCHANGED clientVars

\* the two IGAPIConfig classes of the package
APIConfigClasses == {"client.IGAPIConfig", "models.IGAPIConfig"}

\* client.py:103-104 and models.py:146-147: the platform when none is given
DefaultPlatform(cls, e) ==
    IF cls = "client.IGAPIConfig"
    THEN IF "IG_PLATFORM" \in DOMAIN e THEN e["IG_PLATFORM"] ELSE "live"
    ELSE "demo"

\* client.py:106-109, models.py:149
UnknownPlatformMessage(platform) ==
    "Unknown platform type: " \o platform \o " (valid options: 'live', 'demo')"

\* the URL properties each class defines (client.py:112-152,
\* models.py:152-201)
UrlProperties(cls, a) ==
    IF cls = "client.IGAPIConfig"
    THEN [k \in {"session_url", "accounts_url", "positions_url", "markets_url"} |->
            CASE k = "session_url" -> session_url(a)
              [] k = "accounts_url" -> accounts_url(a)
              [] k = "positions_url" -> positions_url(a)
              [] k = "markets_url" -> markets_url(a)]
    ELSE [k \in {"session_url", "accounts_url", "positions_url", "markets_url",
                 "prices_url"} |->
            CASE k = "session_url" -> session_url(a)
              [] k = "accounts_url" -> accounts_url(a)
              [] k = "positions_url" -> positions_url(a)
              [] k = "markets_url" -> markets_url(a)
              [] k = "prices_url" -> prices_url(a)]

\* client.py:97-110, models.py:140-150: IGAPIConfig.__post_init__
PostInitAPIConfig(cls, given, e) ==
    LET platform == IF given = None THEN DefaultPlatform(cls, e) ELSE given
    IN  IF platform \notin DOMAIN platform_urls
        THEN [kind |-> "ValueError", message |-> UnknownPlatformMessage(platform)]
        ELSE LET a == [platform |-> platform, base_url |-> platform_urls[platform]]
             IN  [kind |-> "IGAPIConfig", value |-> a,
                  urls |-> UrlProperties(cls, a)]

\* IGAPIConfig(platform) / IGAPIConfig()
NewAPIConfig ==
    /\ \E cls \in APIConfigClasses, given \in {None, "live", "demo", "foo"} :
          obj' = [cls |-> cls, given |-> given] @@ PostInitAPIConfig(cls, given, env)
    /\ UNCHANGED <<env, wire, ret, fs, proc>>
    /\ UNCHANGED clientVars

\* the method names _request is called with
Methods == {"get", "GET", "post", "delete"}

\* str.lower() on the method names
Lower(method) ==
    CASE method \in {"get", "GET"} -> "get"
      [] method = "post" -> "post"
      [] method = "delete" -> "delete"

\* a transport that compares the method as given
HttpCall_CaseSensitive(url, method, headers, data) ==
    IF method = "get"
    THEN [fn |-> Lower(method), url |-> url,
          kwargs |-> [headers |-> headers, params |-> data]]
    ELSE [fn |-> Lower(method), url |-> url,
          kwargs |-> [headers |-> headers, json |-> data]]

\* client.py:239-242: the call on the requests module
HttpCall(url, method, headers, data) ==
    IF Lower(method) = "get"
    THEN [fn |-> Lower(method), url |-> url,
          kwargs |-> [headers |-> headers, params |-> data]]
    ELSE [fn |-> Lower(method), url |-> url,
          kwargs |-> [headers |-> headers, json |-> data]]

\* a transport that hands back what it was given
RequestResult_Echo(headers, data, req) == IGResponse(data, headers)

\* client.py:243-244: the IGResponse built from the HTTP response req
RequestResult(headers, data, req) == IGResponse(req.json, req.headers)

\* payloads passed to _request
Payloads == { EmptyDict, [k \in {"searchTerm"} |-> "test"] }

\* client.py:229-244: IGClient._request(url, method, headers, data)
Request ==
    /\ \E method \in Methods, headers \in CallerHeaders, data \in Payloads :
          /\ wire' = <<HttpCall(TargetUrl, method, headers, data)>>
          /\ \/ \E d \in RespData, h \in HttpRespHeaders :
                  ret' = [kind |-> "returned",
                          given |-> [url |-> TargetUrl, method |-> method,
                                     headers |-> headers, data |-> data],
                          http |-> [json |-> d, headers |-> h],
                          value |-> RequestResult(headers, data,
                                                  [json |-> d, headers |-> h])]
             \/ ret' = [kind |-> "raised",
                        given |-> [url |-> TargetUrl, method |-> method,
                                   headers |-> headers, data |-> data],
                        error |-> "TransportError"]
    /\ UNCHANGED <<env, obj, fs, proc>>
    /\ UNCHANGED clientVars

InitParts ==
    /\ now = 1
    /\ auth = [api_key |-> "api_key", username |-> "username",
               password |-> "password"]
    /\ api = [platform |-> "demo", base_url |-> platform_urls["demo"]]
    /\ session = IGSession
    /\ pc = [t \in Callers |-> "idle"]
    /\ args = [t \in Callers |-> NoArgs]
    /\ resp = [t \in Callers |-> EmptyDict]
    /\ pre = [t \in Callers |-> 0]
    /\ authTime = [t \in Callers |-> 0]
    /\ valid = [t \in Callers |-> FALSE]
    /\ hdrs = [t \in Callers |-> EmptyDict]
    /\ calls = [t \in Callers |-> <<>>]
    /\ nauth = [t \in Callers |-> 0]
    /\ result = [t \in Callers |-> NoResult]
    /\ response = [t \in Callers |-> NoResponse]
    /\ first = [t \in Callers |-> FALSE]
    /\ env \in Envs
    /\ obj = NoObject
    /\ wire = NoWire
    /\ ret = NoResult
    /\ fs = [p \in FilePaths |-> NoFile]
    /\ proc = NoProcess

NextParts ==
    \/ NewUserAuth
    \/ NewAPIConfig
    \/ Request

SpecParts == InitParts /\ [][NextParts]_vars

\* ----------------------------------------------------------------------
\* The configuration file and the command line layer (utils.py, cli.py).

\* a configuration with the default platform and its credentials
GoodConfig ==
    [platform |-> [default |-> "demo"],
     auth |-> [demo |-> [api_key |-> "cfg_api_key", username |-> "cfg_username",
                         password |-> "cfg_password"]]]

\* a configuration that names a default platform and has no credentials for it
NoAuthConfig ==
    [platform |-> [default |-> "demo"], auth |-> [live |-> EmptyDict]]

\* what may be at a path: nothing, an empty YAML document (safe_load returns
\* None), or a YAML mapping
FileStates ==
    { NoFile,
      [kind |-> "file", yaml |-> [kind |-> "null"]],
      [kind |-> "file", yaml |-> [kind |-> "mapping", value |-> GoodConfig]],
      [kind |-> "file", yaml |-> [kind |-> "mapping", value |-> NoAuthConfig]] }

Returned(v) == [kind |-> "returned", value |-> v]

KeyError(k) == [kind |-> "raised", error |-> "KeyError", key |-> k]

\* a loader that lets FileNotFoundError through
from_file_Strict(files, path) ==
    LET f == files[ExpandUser(path)]
    IN  IF f.kind = "absent"
        THEN [kind |-> "raised", error |-> "FileNotFoundError"]
        ELSE IF f.yaml.kind = "null"
        THEN [kind |-> "raised", error |-> "AttributeError"]
        ELSE Returned(f.yaml.value)

\* utils.py:138-158: Configuration.from_file(path)
from_file(files, path) ==
    LET f == files[ExpandUser(path)]
    IN  IF f.kind = "absent"
        THEN Returned(EmptyDict)
        ELSE IF f.yaml.kind = "null"
        THEN \* config is None: config.items() fails
             [kind |-> "raised", error |-> "AttributeError"]
        ELSE Returned(f.yaml.value)

\* cli.py:257-263
get_config(files) == from_file(files, DefaultConfigPath)

\* a lookup that falls back to "demo" when the configuration names no
\* default platform
ConfiguredPlatform_Fallback(platform, conf) ==
    IF Truthy(platform) THEN Returned(platform)
    ELSE IF "platform" \notin DOMAIN conf THEN Returned("demo")
    ELSE IF "default" \notin DOMAIN conf["platform"] THEN Returned("demo")
    ELSE Returned(conf["platform"]["default"])

\* cli.py:274, 287: platform or conf["platform"]["default"]
ConfiguredPlatform(platform, conf) ==
    IF Truthy(platform) THEN Returned(platform)
    ELSE IF "platform" \notin DOMAIN conf THEN KeyError("platform")
    ELSE IF "default" \notin DOMAIN conf["platform"] THEN KeyError("default")
    ELSE Returned(conf["platform"]["default"])

\* cli.py:266-276
get_api_config(platform, files, e) ==
    LET conf == get_config(files)
    IN  IF conf.kind # "returned" THEN conf
        ELSE LET pf == ConfiguredPlatform(platform, conf.value)
             IN  IF pf.kind # "returned" THEN pf
                 ELSE LET ig_api == PostInitAPIConfig("models.IGAPIConfig",
                                                      pf.value, e)
                      IN  IF ig_api.kind = "ValueError"
                          THEN [kind |-> "raised", error |-> "ValueError",
                                message |-> ig_api.message]
                          ELSE Returned(ig_api.value)

\* cli.py:279-290
get_auth_config(platform, files, e) ==
    LET conf == get_config(files)
    IN  IF conf.kind # "returned" THEN conf
        ELSE LET pf == ConfiguredPlatform(platform, conf.value)
             IN  IF pf.kind # "returned" THEN pf
                 ELSE IF "auth" \notin DOMAIN conf.value THEN KeyError("auth")
                 ELSE IF pf.value \notin DOMAIN conf.value["auth"]
                 THEN KeyError(pf.value)
                 ELSE LET auth_conf == conf.value["auth"][pf.value]
                          given == [f \in {"api_key", "username", "password"} |->
                                      IF f \in DOMAIN auth_conf THEN auth_conf[f]
                                      ELSE None]
                          ig_auth == PostInitAuth(given, e, 1)
                      IN  IF ig_auth.kind = "ValueError"
                          THEN [kind |-> "raised", error |-> "ValueError",
                                message |-> ig_auth.message]
                          ELSE Returned(ig_auth.value)

\* Configuration.from_file(path) called on its own
FromFile ==
    /\ \E path \in ConfigPaths :
          proc' = [fn |-> "from_file", given |-> [path |-> path],
                   out |-> from_file(fs, path)]
    /\ UNCHANGED <<env, obj, wire, ret, fs>>
    /\ UNCHANGED clientVars

\* get_api_config(platform) called on its own
GetApiConfig ==
    /\ \E platform \in {None, "live", "foo"} :
          proc' = [fn |-> "get_api_config", given |-> [platform |-> platform],
                   out |-> get_api_config(platform, fs, env)]
    /\ UNCHANGED <<env, obj, wire, ret, fs>>
    /\ UNCHANGED clientVars

\* get_auth_config(platform) called on its own
GetAuthConfig ==
    /\ \E platform \in {None, "demo", "live"} :
          proc' = [fn |-> "get_auth_config", given |-> [platform |-> platform],
                   out |-> get_auth_config(platform, fs, env)]
    /\ UNCHANGED <<env, obj, wire, ret, fs>>
    /\ UNCHANGED clientVars

\* date expressions given to --range
DateExprs ==
    {"now", "NOW", "2021/1/20", "2 days ago", "invalid_data_time_specifier"}

\* str.lower() on the date expressions
LowerDate(date_expr) == IF date_expr = "NOW" THEN "now" ELSE date_expr

\* arrow.get(date_expr): a timestamp, or ParserError
ArrowGet(date_expr) ==
    IF date_expr = "2021/1/20" THEN Returned("datetime(2021, 1, 20)")
    ELSE [kind |-> "raised", error |-> "ParserError"]

\* now.dehumanize(date_expr): a relative date, or ValueError
Dehumanize(date_expr) ==
    IF date_expr = "2 days ago" THEN Returned("datetime(now - 2 days)")
    ELSE [kind |-> "raised", error |-> "ValueError"]

Exit(code) == [kind |-> "exit", code |-> code]

\* a parser that lets the ValueError of dehumanize through
parse_date_Reraise(date_expr) ==
    IF LowerDate(date_expr) = "now" THEN Returned("datetime(now)")
    ELSE IF ArrowGet(date_expr).kind = "returned" THEN ArrowGet(date_expr)
    ELSE Dehumanize(date_expr)

\* cli.py:90-103: InstrumentCommand._parse_date
parse_date(date_expr) ==
    IF LowerDate(date_expr) = "now" THEN Returned("datetime(now)")
    ELSE IF ArrowGet(date_expr).kind = "returned" THEN ArrowGet(date_expr)
    ELSE IF Dehumanize(date_expr).kind = "returned" THEN Dehumanize(date_expr)
    ELSE Exit(1) @@ [output |-> "Do not know how to parse datetime: " \o date_expr]

\* cli.py:116-117 (the default of line 111 when no resolution is passed)
Resolution(kwargs) ==
    IF Truthy(kwargs.resolution) THEN kwargs.resolution ELSE "MINUTE"

\* keyword arguments in which the max-points value is passed on also when a
\* range is given ("if" instead of "elif")
PriceArgs_NoPrecedence(kwargs) ==
    LET max_points == IF Truthy(kwargs.max_num) THEN kwargs.max_num ELSE None
    IN  IF kwargs.range # <<>>
        THEN LET ts_from == parse_date(kwargs.range[1])
                 ts_to == parse_date(kwargs.range[2])
             IN  IF ts_from.kind # "returned" THEN ts_from
                 ELSE IF ts_to.kind # "returned" THEN ts_to
                 ELSE Returned([start_time |-> ts_from.value,
                                end_time |-> ts_to.value,
                                max_data_points |-> max_points,
                                resolution |-> Resolution(kwargs)])
        ELSE Returned([start_time |-> None, end_time |-> None,
                       max_data_points |-> max_points,
                       resolution |-> Resolution(kwargs)])

\* cli.py:109-120: the keyword arguments _get passes to client.get_prices
PriceArgs(kwargs) ==
    IF kwargs.range # <<>>
    THEN LET ts_from == parse_date(kwargs.range[1])
             ts_to == parse_date(kwargs.range[2])
         IN  IF ts_from.kind # "returned" THEN ts_from
             ELSE IF ts_to.kind # "returned" THEN ts_to
             ELSE Returned([start_time |-> ts_from.value,
                            end_time |-> ts_to.value,
                            max_data_points |-> None,
                            resolution |-> Resolution(kwargs)])
    ELSE Returned([start_time |-> None, end_time |-> None,
                   max_data_points |->
                       IF Truthy(kwargs.max_num) THEN kwargs.max_num ELSE None,
                   resolution |-> Resolution(kwargs)])

\* the query of IGClient.get_prices: resolution and pageSize, and either
\* from/to or max, the range winning over max (the value of pageSize is not
\* stated and stands for itself)
PricesQuery(a) ==
    LET keys == {"resolution", "pageSize"} \cup
                (IF a.start_time # None /\ a.end_time # None THEN {"from", "to"}
                 ELSE IF a.max_data_points # None THEN {"max"}
                 ELSE {})
    IN  [k \in keys |->
            CASE k = "resolution" -> a.resolution
              [] k = "pageSize" -> "pageSize"
              [] k = "from" -> a.start_time
              [] k = "to" -> a.end_time
              [] k = "max" -> a.max_data_points]

\* IGClient.get_prices(instrument, start_time, end_time, max_data_points,
\* resolution): one GET on /prices/{epic} with header version 3
get_prices(a, epic, args_) ==
    [op |-> "get_prices", args |-> args_,
     call |-> [url |-> prices_url(a) \o "/" \o epic, method |-> "get",
               headers |-> [k \in {"version"} |-> "3"],
               data |-> PricesQuery(args_)]]

\* the client operations a command has called, in order; the operation at
\* position fail raised a transport error (0: none did), stop is how the
\* command ended by itself after the operations
Outcome(ops, fail, stop) ==
    IF fail \in 1 .. Len(ops)
    THEN [out |-> [kind |-> "raised", error |-> "TransportError"],
          trace |-> SubSeq(ops, 1, fail)]
    ELSE [out |-> stop, trace |-> ops]

\* cli.py:105-124, 132-135, 149-152, 160-165, 178-183: the command
\* callables; each builds its client from the configuration first
RunCommand(key, kwargs, files, e, fail) ==
    LET ig_auth == get_auth_config(None, files, e)
        ig_api == get_api_config(None, files, e)
    IN  IF ig_auth.kind # "returned" THEN [out |-> ig_auth, trace |-> <<>>]
        ELSE IF ig_api.kind # "returned" THEN [out |-> ig_api, trace |-> <<>>]
        ELSE CASE key = <<"instrument", "get">> ->
                    LET first_ == [op |-> "get_instrument", args |-> kwargs.name]
                        pa == PriceArgs(kwargs)
                    IN  IF ~kwargs.prices
                        THEN Outcome(<<first_>>, fail, Returned(None))
                        ELSE IF pa.kind # "returned"
                        THEN Outcome(<<first_>>, fail, pa)
                        ELSE Outcome(<<first_,
                                       get_prices(ig_api.value, kwargs.name,
                                                  pa.value)>>,
                                     fail, Returned(None))
               [] key = <<"instrument", "search">> ->
                    Outcome(<<[op |-> "search_markets", args |-> kwargs.term]>>,
                            fail, Returned(None))
               [] key = <<"positions", "get">> ->
                    Outcome(<<[op |-> "get_positions"]>>, fail, Returned(None))
               [] key = <<"positions", "close">> ->
                    Outcome(<<[op |-> "close_position", args |-> kwargs.deal_id]>>,
                            fail, Returned(None))
               [] key = <<"account", "get">> ->
                    Outcome(<<[op |-> "get_accounts"],
                              [op |-> "get_session_details"]>>,
                            fail, Returned(None))

\* cli.py:64-183: the (object, action) pairs register_command_parsers finds
CliCommands ==
    { <<"instrument", "get">>, <<"instrument", "search">>,
      <<"positions", "get">>, <<"positions", "close">>, <<"account", "get">> }

\* the positional arguments of each action (cli.py:72, 129, 157)
Positionals(key) ==
    CASE key = <<"instrument", "get">> -> <<"name">>
      [] key = <<"instrument", "search">> -> <<"term">>
      [] key = <<"positions", "close">> -> <<"deal_id">>
      [] OTHER -> <<>>

\* cli.py:85: the choices of --resolution (two of them)
Resolutions == {"MINUTE", "HOUR"}

\* a command line: what it holds for each argument of the parsers (None or
\* <<>>: not on the command line)
NoArgv ==
    [format |-> None, object |-> None, command |-> None, positional |-> <<>>,
     prices |-> FALSE, range |-> <<>>, max_num |-> None, resolution |-> None]

Argvs ==
    { NoArgv,
      [NoArgv EXCEPT !.object = "orders", !.command = "get"],
      [NoArgv EXCEPT !.object = "account"],
      [NoArgv EXCEPT !.object = "account", !.command = "get"],
      [NoArgv EXCEPT !.object = "account", !.command = "get", !.format = "json"],
      [NoArgv EXCEPT !.object = "account", !.command = "get", !.format = "xml"],
      [NoArgv EXCEPT !.object = "positions", !.command = "get"],
      [NoArgv EXCEPT !.object = "positions", !.command = "close"],
      [NoArgv EXCEPT !.object = "positions", !.command = "close",
                     !.positional = <<"DEAL1">>],
      [NoArgv EXCEPT !.object = "instrument", !.command = "search",
                     !.positional = <<"test">>],
      [NoArgv EXCEPT !.object = "instrument", !.command = "get",
                     !.positional = <<"EPIC">>],
      [NoArgv EXCEPT !.object = "instrument", !.command = "get",
                     !.positional = <<"EPIC">>, !.prices = TRUE,
                     !.max_num = "10"],
      [NoArgv EXCEPT !.object = "instrument", !.command = "get",
                     !.positional = <<"EPIC">>, !.prices = TRUE,
                     !.range = <<"2 days ago", "NOW">>, !.resolution = "HOUR"],
      [NoArgv EXCEPT !.object = "instrument", !.command = "get",
                     !.positional = <<"EPIC">>, !.prices = TRUE,
                     !.range = <<"2021/1/20", "invalid_data_time_specifier">>],
      [NoArgv EXCEPT !.object = "instrument", !.command = "get",
                     !.positional = <<"EPIC">>, !.prices = TRUE,
                     !.range = <<"2021/1/20", "now">>, !.max_num = "10"],
      [NoArgv EXCEPT !.object = "instrument", !.command = "get",
                     !.positional = <<"EPIC">>, !.prices = TRUE,
                     !.resolution = "YEAR"] }

\* cli.py:69-88, 126-130, 143-147, 154-158, 173-176, 209-220, 233-239:
\* ArgumentParser.parse_args exits with code 2 on any error
parse_args(argv) ==
    LET key == <<argv.object, argv.command>>
        options == argv.prices \/ argv.range # <<>> \/ argv.max_num # None
                      \/ argv.resolution # None
    IN  IF argv.format \notin {None, "json", "text"} THEN Exit(2)
        ELSE IF key \notin CliCommands THEN Exit(2)
        ELSE IF Len(argv.positional) # Len(Positionals(key)) THEN Exit(2)
        ELSE IF key # <<"instrument", "get">> /\ options THEN Exit(2)
        ELSE IF argv.range # <<>> /\ argv.max_num # None THEN Exit(2)
        ELSE IF argv.resolution \notin Resolutions \cup {None} THEN Exit(2)
        ELSE LET fmt == [format |-> IF argv.format = None THEN "text"
                                     ELSE argv.format]
             IN  Returned(
                   [object |-> argv.object, command |-> argv.command,
                    kwargs |->
                      CASE key = <<"instrument", "get">> ->
                              fmt @@ [name |-> argv.positional[1],
                                      prices |-> argv.prices,
                                      range |-> argv.range,
                                      max_num |-> argv.max_num,
                                      resolution |->
                                          IF argv.resolution = None THEN "MINUTE"
                                          ELSE argv.resolution]
                        [] key = <<"instrument", "search">> ->
                              fmt @@ [term |-> argv.positional[1]]
                        [] key = <<"positions", "close">> ->
                              fmt @@ [deal_id |-> argv.positional[1]]
                        [] key = <<"positions", "get">> -> fmt @@ [all |-> None]
                        [] OTHER -> fmt])

\* cli.py:293-300, 242-254: parse, dispatch, sys.exit(0)
app(argv, files, e, fail) ==
    LET args_ == parse_args(argv)
    IN  IF args_.kind # "returned" THEN [out |-> args_, trace |-> <<>>]
        ELSE LET run == RunCommand(<<args_.value.object, args_.value.command>>,
                                   args_.value.kwargs, files, e, fail)
             IN  IF run.out.kind = "returned"
                 THEN [out |-> Exit(0), trace |-> run.trace]
                 ELSE run

\* the transport error a command may meet: at its first or second client
\* operation, or not at all
Failures == {0, 1, 2}

\* InstrumentCommand._parse_date(date_expr) called on its own
ParseDate ==
    /\ \E date_expr \in DateExprs :
          proc' = [fn |-> "_parse_date", given |-> [date_expr |-> date_expr],
                   out |-> parse_date(date_expr)]
    /\ UNCHANGED <<env, obj, wire, ret, fs>>
    /\ UNCHANGED clientVars

\* keyword arguments of InstrumentCommand._get called on its own
GetKwargs ==
    [format : {"json"}, name : {"EPIC"}, prices : {TRUE},
     range : {<<>>, <<"2021/1/20", "now">>, <<"invalid_data_time_specifier", "now">>},
     max_num : {None, "10"}, resolution : {None, "HOUR"}]

\* InstrumentCommand()._get(name, **kwargs)
InstrumentGet ==
    /\ \E kwargs \in GetKwargs, fail \in Failures :
          proc' = [fn |-> "_get", given |-> [kwargs |-> kwargs]]
                    @@ RunCommand(<<"instrument", "get">>, kwargs, fs, env, fail)
    /\ UNCHANGED <<env, obj, wire, ret, fs>>
    /\ UNCHANGED clientVars

\* the pygi process
App ==
    /\ \E argv \in Argvs, fail \in Failures :
          proc' = [fn |-> "app", given |-> [argv |-> argv]]
                    @@ app(argv, fs, env, fail)
    /\ UNCHANGED <<env, obj, wire, ret, fs>>
    /\ UNCHANGED clientVars

InitCli ==
    /\ now = 1
    /\ auth = [api_key |-> "api_key", username |-> "username",
               password |-> "password"]
    /\ api = [platform |-> "demo", base_url |-> platform_urls["demo"]]
    /\ session = IGSession
    /\ pc = [t \in Callers |-> "idle"]
    /\ args = [t \in Callers |-> NoArgs]
    /\ resp = [t \in Callers |-> EmptyDict]
    /\ pre = [t \in Callers |-> 0]
    /\ authTime = [t \in Callers |-> 0]
    /\ valid = [t \in Callers |-> FALSE]
    /\ hdrs = [t \in Callers |-> EmptyDict]
    /\ calls = [t \in Callers |-> <<>>]
    /\ nauth = [t \in Callers |-> 0]
    /\ result = [t \in Callers |-> NoResult]
    /\ response = [t \in Callers |-> NoResponse]
    /\ first = [t \in Callers |-> FALSE]
    /\ env = EmptyDict
    /\ obj = NoObject
    /\ wire = NoWire
    /\ ret = NoResult
    /\ fs \in [FilePaths -> FileStates]
    /\ proc = NoProcess

NextCli ==
    \/ FromFile
    \/ GetApiConfig
    \/ GetAuthConfig
    \/ ParseDate
    \/ InstrumentGet
    \/ App

SpecCli == InitCli /\ [][NextCli]_vars

\* ======================================================================
\* Session validity
\* ======================================================================

\* C1: whenever expires <= now (expires == now included) the validity check
\* returns false, whatever the tokens are.
C1_ExpiredIsInvalid ==
    session.expires <= now => ~AuthenticationIsValid(session, now)

\* C2 as stated: with expires > now the validity check returns true exactly
\* when neither token is absent (None).
C2_ValidIffPresent ==
    session.expires > now =>
        (AuthenticationIsValid(session, now)
            <=> (session.cst # None /\ session.security_token # None))

\* C2 amended: with expires > now the validity check returns true exactly
\* when both tokens are present and non-empty; an absent or an empty-string
\* token makes it return false.
C2_ValidIffNonEmpty ==
    session.expires > now =>
        (AuthenticationIsValid(session, now)
            <=> (/\ session.cst \notin {None, ""}
                 /\ session.security_token \notin {None, ""}))

\* an engine request found an unexpired session with two non-empty tokens
\* valid and went straight to the resource call
C2_Witness ==
    \E t \in Callers :
        /\ pc[t] = "merge"
        /\ nauth[t] = 0
        /\ session.expires > now
        /\ session.cst \notin {None, ""}
        /\ session.security_token \notin {None, ""}

\* ======================================================================
\* Authenticated request engine and authentication flow
\* ======================================================================

\* the running or last invocation of caller t has ended (returned or raised)
Ended(t) == pc[t] \in {"done", "raised"}

\* a POST to the session endpoint
IsAuthPost(c) == c.url = api.base_url \o "/session" /\ c.method = "post"

\* _authenticate of caller t ran to its last statement
AuthCompleted(t) ==
    /\ nauth[t] = 1
    /\ \/ pc[t] \in {"merge", "send", "done"}
       \/ pc[t] = "raised" /\ Len(calls[t]) = 2

\* C3: a request that finds the session invalid and whose authentication
\* response carries CST=c, X-SECURITY-TOKEN=s and Access-Control-Max-Age=h
\* ends with the session {cst=c, security_token=s, expires=now+h} (now being
\* the time read by the authentication), and has made the resource call
\* after the authentication call, never before.
C3_ReauthThenCall ==
    \A t \in SeqCallers :
        (/\ Ended(t)
         /\ ~valid[t]
         /\ {"CST", "X-SECURITY-TOKEN", "Access-Control-Max-Age"}
                \subseteq DOMAIN resp[t])
        => /\ session.cst = resp[t]["CST"]
           /\ session.security_token = resp[t]["X-SECURITY-TOKEN"]
           /\ session.expires
                = authTime[t] + IntOfStr(resp[t]["Access-Control-Max-Age"])
           /\ Len(calls[t]) = 2
           /\ IsAuthPost(calls[t][1])
           /\ calls[t][2].url = args[t].url
           /\ calls[t][2].method = args[t].method
           /\ calls[t][2].data = args[t].data

\* a request re-authenticated with response {CST: "abc", X-SECURITY-TOKEN:
\* "xyz", Access-Control-Max-Age: "2"} at a time later than its invocation
\* and returned
C3_Witness ==
    \E t \in SeqCallers :
        /\ pc[t] = "done"
        /\ ~valid[t]
        /\ DOMAIN resp[t] = {"CST", "X-SECURITY-TOKEN", "Access-Control-Max-Age"}
        /\ resp[t]["CST"] = "abc"
        /\ resp[t]["X-SECURITY-TOKEN"] = "xyz"
        /\ resp[t]["Access-Control-Max-Age"] = "2"
        /\ authTime[t] = 2
        /\ session = [cst |-> "abc", security_token |-> "xyz", expires |-> 4]

\* C4: a request invoked while the validity check holds makes no
\* authentication call (no POST to the session endpoint) and, once it has
\* ended, has made exactly one transport call, to the target URL.
C4_ValidSkipsAuth ==
    \A t \in SeqCallers :
        valid[t] =>
            /\ nauth[t] = 0
            /\ \A i \in 1 .. Len(calls[t]) : ~IsAuthPost(calls[t][i])
            /\ Len(calls[t]) <= 1
            /\ Ended(t) =>
                  /\ Len(calls[t]) = 1
                  /\ calls[t][1].url = args[t].url
                  /\ calls[t][1].method = args[t].method

\* a request found the session valid and has ended
C4_Witness ==
    \E t \in SeqCallers :
        /\ valid[t]
        /\ Ended(t)
        /\ Len(calls[t]) = 1
        /\ args[t].op = "get_accounts"

\* C5: every resource call the engine issues carries the cst and the
\* security token of a session that is valid (expires > now, both tokens
\* present) at the moment the call is issued.
C5_CallsCarryValidTokens ==
    [][\A t \in SeqCallers :
          (pc[t] = "send" /\ pc'[t] # "send") =>
              /\ session.expires > now
              /\ session.cst # None
              /\ session.security_token # None
              /\ calls'[t][Len(calls'[t])].headers["CST"] = session.cst
              /\ calls'[t][Len(calls'[t])].headers["X-SECURITY-TOKEN"]
                    = session.security_token]_vars

\* C6: the headers of the resource call are the caller's headers, overridden
\* by the session's CST / X-SECURITY-TOKEN, overridden by the credentials'
\* X-IG-API-KEY / Content-Type.
C6_HeaderPrecedence ==
    \A t \in SeqCallers :
        (Ended(t) /\ Len(calls[t]) >= 1 /\ ~IsAuthPost(calls[t][Len(calls[t])]))
        => LET sent == calls[t][Len(calls[t])].headers
               given == args[t].headers
           IN  /\ DOMAIN sent = DOMAIN given \cup
                     {"CST", "X-SECURITY-TOKEN", "X-IG-API-KEY", "Content-Type"}
               /\ sent["X-IG-API-KEY"] = auth.api_key
               /\ sent["Content-Type"] = "application/json"
               /\ sent["CST"] = session.cst
               /\ sent["X-SECURITY-TOKEN"] = session.security_token
               /\ \A k \in DOMAIN given \
                     {"CST", "X-SECURITY-TOKEN", "X-IG-API-KEY", "Content-Type"} :
                     sent[k] = given[k]

\* a request whose caller passed all four colliding keys (and one of its own)
\* has sent its resource call
C6_Witness ==
    \E t \in SeqCallers :
        /\ pc[t] = "done"
        /\ {"CST", "X-SECURITY-TOKEN", "X-IG-API-KEY", "Content-Type", "version"}
              \subseteq DOMAIN args[t].headers
        /\ calls[t][Len(calls[t])].headers["CST"] = "abc"
        /\ calls[t][Len(calls[t])].headers["version"] = "3"

\* C7: each run of the authentication flow makes exactly one transport call:
\* a POST to the session URL with the credentials' headers and body and
\* without session tokens.
C7_AuthIsOnePost ==
    \A t \in SeqCallers :
        /\ Cardinality({i \in 1 .. Len(calls[t]) : IsAuthPost(calls[t][i])})
              = nauth[t]
        /\ nauth[t] = 1 =>
              /\ calls[t][1].url = api.base_url \o "/session"
              /\ calls[t][1].method = "post"
              /\ DOMAIN calls[t][1].headers = {"X-IG-API-KEY", "Content-Type"}
              /\ calls[t][1].headers["X-IG-API-KEY"] = auth.api_key
              /\ calls[t][1].headers["Content-Type"] = "application/json"
              /\ DOMAIN calls[t][1].data
                    = {"identifier", "password", "encryptedPassword"}
              /\ calls[t][1].data["identifier"] = auth.username
              /\ calls[t][1].data["password"] = auth.password
              /\ calls[t][1].data["encryptedPassword"] = None
              /\ pc[t] \in {"auth_expires", "auth_cst", "auth_token", "merge",
                            "send"} => Len(calls[t]) = 1

\* the authentication flow ran while the session already held tokens
C7_Witness ==
    \E t \in SeqCallers :
        /\ nauth[t] = 1
        /\ pc[t] = "auth_expires"
        /\ session.cst = "abc"
        /\ session.security_token = "xyz"

\* C8: after an authentication whose response carries both token headers,
\* expires is now + hint if the hint header is present and is exactly what it
\* was before the authentication if the hint is absent; both tokens are the
\* response's in either case.
C8_ExpiryHint ==
    \A t \in SeqCallers :
        AuthCompleted(t) =>
            /\ session.cst = resp[t]["CST"]
            /\ session.security_token = resp[t]["X-SECURITY-TOKEN"]
            /\ session.expires =
                  IF "Access-Control-Max-Age" \in DOMAIN resp[t]
                  THEN authTime[t] + IntOfStr(resp[t]["Access-Control-Max-Age"])
                  ELSE pre[t]

\* an authentication without the hint header overwrote the tokens of a
\* session and left its non-zero expiry alone
C8_Witness ==
    \E t \in SeqCallers :
        /\ AuthCompleted(t)
        /\ DOMAIN resp[t] = {"CST", "X-SECURITY-TOKEN"}
        /\ pre[t] = 2
        /\ session = [cst |-> "xyz", security_token |-> "abc", expires |-> 2]

\* C9: when the authentication response lacks CST or X-SECURITY-TOKEN, the
\* request ends by raising KeyError, without a resource call and without a
\* second authentication.
C9_MissingTokenRaises ==
    \A t \in SeqCallers :
        (/\ nauth[t] >= 1
         /\ pc[t] \notin {"auth_post", "auth_expires", "auth_cst", "auth_token"}
         /\ result[t] # [kind |-> "raised", error |-> "TransportError"]
         /\ ("CST" \notin DOMAIN resp[t]
                \/ "X-SECURITY-TOKEN" \notin DOMAIN resp[t]))
        => /\ pc[t] = "raised"
           /\ result[t] = [kind |-> "raised", error |-> "KeyError"]
           /\ nauth[t] = 1
           /\ Len(calls[t]) = 1
           /\ IsAuthPost(calls[t][1])

\* an authentication response with CST but no X-SECURITY-TOKEN ended the
\* request with KeyError
C9_Witness ==
    \E t \in SeqCallers :
        /\ pc[t] = "raised"
        /\ result[t] = [kind |-> "raised", error |-> "KeyError"]
        /\ "CST" \in DOMAIN resp[t]
        /\ "X-SECURITY-TOKEN" \notin DOMAIN resp[t]

\* C10: only the statements of the authentication flow change the session;
\* the validity check, the header merge, the resource call (returning or
\* raising) and the passing of time leave cst, security_token and expires
\* as they are.
C10_OnlyAuthChangesSession ==
    [][session' # session =>
          \E t \in SeqCallers :
              /\ pc[t] \in {"auth_expires", "auth_cst", "auth_token"}
              /\ pc'[t] # pc[t]]_vars

\* a request found the session valid, failed in its resource call and the
\* session still holds the tokens and the expiry
C10_Witness ==
    \E t \in SeqCallers :
        /\ valid[t]
        /\ pc[t] = "raised"
        /\ session.cst = "abc"
        /\ session.security_token = "xyz"
        /\ session.expires >= now

\* C11: there is no retry. One invocation makes at most one authentication
\* call and at most one resource call; it authenticates only when its
\* pre-flight validity check failed; and once the resource call has been made
\* the invocation is over, whether the call raised, returned a 401 error body
\* or succeeded.
C11_NoRetry ==
    \A t \in SeqCallers :
        LET auths == {i \in 1 .. Len(calls[t]) : IsAuthPost(calls[t][i])}
            others == {i \in 1 .. Len(calls[t]) : ~IsAuthPost(calls[t][i])}
        IN  /\ nauth[t] <= 1
            /\ Cardinality(auths) <= 1
            /\ Cardinality(others) <= 1
            /\ nauth[t] = 1 => ~valid[t]
            /\ others # {} => Ended(t)

\* a request on a valid session got a 401 error body from the resource call
\* and ended after that single call
C11_Witness ==
    \E t \in SeqCallers :
        /\ pc[t] = "done"
        /\ valid[t]
        /\ "errorCode" \in DOMAIN response[t].data
        /\ Len(calls[t]) = 1
        /\ nauth[t] = 0

\* C12: two callers of one client are not kept apart. No caller is ever held
\* back by the position of the other one: whatever the other caller is doing,
\* each caller's next statement can run. (The witness is the interleaving the
\* claim describes.)
C12_NoMutualExclusion ==
    \A t \in Callers : ENABLED ConcStep(t)

\* both callers found the session invalid and each posted to the session
\* endpoint; caller t then sent its resource call with the CST of the other
\* caller's authentication response and the security token of its own
C12_Witness ==
    \E t \in Callers : \E u \in Callers \ {t} :
        /\ ~valid[t] /\ ~valid[u]
        /\ nauth[t] = 1 /\ nauth[u] = 1
        /\ IsAuthPost(calls[t][1]) /\ IsAuthPost(calls[u][1])
        /\ resp[t] \in ConcResponses /\ resp[u] \in ConcResponses
        /\ resp[t]["CST"] # resp[u]["CST"]
        /\ pc[t] = "done"
        /\ Len(calls[t]) = 2
        /\ calls[t][2].headers["CST"] = resp[u]["CST"]
        /\ calls[t][2].headers["X-SECURITY-TOKEN"] = resp[t]["X-SECURITY-TOKEN"]

\* ======================================================================
\* Transport
\* ======================================================================

\* C13: _request makes exactly one HTTP call, with the given URL and headers
\* and the lower-cased method; the payload goes into the query parameters
\* when the method is GET in any letter case and into the JSON body for every
\* other method.
C13_PayloadEncoding ==
    ret.kind # "none" =>
        /\ Len(wire) = 1
        /\ wire[1].url = ret.given.url
        /\ wire[1].kwargs.headers = ret.given.headers
        /\ wire[1].fn = (IF ret.given.method = "GET" THEN "get"
                         ELSE ret.given.method)
        /\ IF ret.given.method \in {"get", "GET"}
           THEN /\ DOMAIN wire[1].kwargs = {"headers", "params"}
                /\ wire[1].kwargs.params = ret.given.data
           ELSE /\ DOMAIN wire[1].kwargs = {"headers", "json"}
                /\ wire[1].kwargs.json = ret.given.data

\* _request("GET", data={"searchTerm": "test"}) sent the payload as query
\* parameters
C13_Witness ==
    /\ ret.kind = "returned"
    /\ ret.given.method = "GET"
    /\ Len(wire) = 1
    /\ "params" \in DOMAIN wire[1].kwargs
    /\ DOMAIN wire[1].kwargs.params = {"searchTerm"}

\* C14: what a successful _request returns is an envelope whose data is the
\* decoded JSON body of the HTTP response and whose headers are the headers
\* of the HTTP response.
C14_ResponseEnvelope ==
    ret.kind = "returned" =>
        /\ DOMAIN ret.value = {"data", "headers"}
        /\ ret.value.data = ret.http.json
        /\ ret.value.headers = ret.http.headers

\* _request returned after a call whose request headers and payload differ
\* from the headers and the body of the response
C14_Witness ==
    /\ ret.kind = "returned"
    /\ ret.given.data # EmptyDict
    /\ ret.given.data # ret.http.json
    /\ ret.given.headers # ret.http.headers
    /\ ret.value.headers = [k \in {"h_key"} |-> "h_value"]

\* ======================================================================
\* Credentials and endpoint resolver
\* ======================================================================

\* C15: IGUserAuth(...) raises ValueError exactly when one of api_key,
\* username, password is neither given nor in the environment, and the
\* message names the first such field in that order and its variable.
C15_MissingCredentialFails ==
    (obj.kind # "none" /\ obj.cls = "IGUserAuth") =>
        LET missing(name, var) == obj.given[name] = None /\ var \notin DOMAIN env
            m1 == missing("api_key", "IG_API_KEY")
            m2 == missing("username", "IG_USERNAME")
            m3 == missing("password", "IG_PASSWORD")
        IN  /\ obj.kind = "ValueError" <=> (m1 \/ m2 \/ m3)
            /\ m1 => obj.message =
                 "Required argument 'api_key' or environment variable 'IG_API_KEY' not set"
            /\ (~m1 /\ m2) => obj.message =
                 "Required argument 'username' or environment variable 'IG_USERNAME' not set"
            /\ (~m1 /\ ~m2 /\ m3) => obj.message =
                 "Required argument 'password' or environment variable 'IG_PASSWORD' not set"

\* IGUserAuth(api_key=...) with neither username nor password given or in the
\* environment failed naming username
C15_Witness ==
    /\ obj.kind = "ValueError"
    /\ obj.cls = "IGUserAuth"
    /\ obj.given.api_key # None
    /\ obj.given.username = None
    /\ obj.given.password = None
    /\ DOMAIN env \cap {"IG_USERNAME", "IG_PASSWORD"} = {}
    /\ obj.message =
         "Required argument 'username' or environment variable 'IG_USERNAME' not set"

\* C16: in a constructed IGUserAuth every field that was given holds the
\* given value, also when its IG_<FIELD> variable is set, and every field
\* that was not given holds the value of its IG_<FIELD> variable.
C16_FieldsResolvedIndependently ==
    (obj.kind = "IGUserAuth") =>
        /\ obj.value.api_key = (IF obj.given.api_key # None
                                THEN obj.given.api_key ELSE env["IG_API_KEY"])
        /\ obj.value.username = (IF obj.given.username # None
                                 THEN obj.given.username ELSE env["IG_USERNAME"])
        /\ obj.value.password = (IF obj.given.password # None
                                 THEN obj.given.password ELSE env["IG_PASSWORD"])

\* with all three variables set, IGUserAuth(api_key=...) kept the given
\* api_key and took username and password from the environment
C16_Witness ==
    /\ obj.kind = "IGUserAuth"
    /\ {"IG_API_KEY", "IG_USERNAME", "IG_PASSWORD"} \subseteq DOMAIN env
    /\ obj.given = [api_key |-> "arg_api_key", username |-> None,
                    password |-> None]
    /\ obj.value = [api_key |-> "arg_api_key", username |-> "from_IG_USERNAME",
                    password |-> "from_IG_PASSWORD"]

\* C17: IGAPIConfig(platform) raises ValueError when the platform is neither
\* "live" nor "demo"; "demo" gives the demo base URL and "live" the live one;
\* every constructed resolver has the base URL of its platform.
C17_PlatformDeterminesBaseUrl ==
    (obj.kind # "none" /\ obj.cls \in APIConfigClasses) =>
        /\ obj.given \notin {None, "live", "demo"} => obj.kind = "ValueError"
        /\ obj.given = "demo" =>
              /\ obj.kind = "IGAPIConfig"
              /\ obj.value.platform = "demo"
              /\ obj.value.base_url = "https://demo-api.ig.com/gateway/deal"
        /\ obj.given = "live" =>
              /\ obj.kind = "IGAPIConfig"
              /\ obj.value.platform = "live"
              /\ obj.value.base_url = "https://api.ig.com/gateway/deal"
        /\ obj.kind = "IGAPIConfig" =>
              \/ /\ obj.value.platform = "live"
                 /\ obj.value.base_url = "https://api.ig.com/gateway/deal"
              \/ /\ obj.value.platform = "demo"
                 /\ obj.value.base_url = "https://demo-api.ig.com/gateway/deal"

\* IGAPIConfig("foo") failed
C17_Witness ==
    /\ obj.kind = "ValueError"
    /\ obj.cls \in APIConfigClasses
    /\ obj.given = "foo"
    /\ obj.message = "Unknown platform type: foo (valid options: 'live', 'demo')"

\* C18: the platform is the argument if one is given, else the value of
\* IG_PLATFORM if that is set (validated like an argument), else "live".
C18_PlatformResolutionOrder ==
    (obj.kind # "none" /\ obj.cls \in APIConfigClasses) =>
        LET wanted == IF obj.given # None THEN obj.given
                      ELSE IF "IG_PLATFORM" \in DOMAIN env THEN env["IG_PLATFORM"]
                      ELSE "live"
        IN  IF wanted \in {"live", "demo"}
            THEN obj.kind = "IGAPIConfig" /\ obj.value.platform = wanted
            ELSE obj.kind = "ValueError"

\* C19: every constructed resolver has the five resource URLs, each being
\* the base URL followed by /session, /accounts, /positions, /markets, /prices.
C19_ResourceUrls ==
    obj.kind = "IGAPIConfig" =>
        /\ {"session_url", "accounts_url", "positions_url", "markets_url",
            "prices_url"} \subseteq DOMAIN obj.urls
        /\ obj.urls["session_url"] = obj.value.base_url \o "/session"
        /\ obj.urls["accounts_url"] = obj.value.base_url \o "/accounts"
        /\ obj.urls["positions_url"] = obj.value.base_url \o "/positions"
        /\ obj.urls["markets_url"] = obj.value.base_url \o "/markets"
        /\ obj.urls["prices_url"] = obj.value.base_url \o "/prices"

\* ======================================================================
\* Domain operations
\* ======================================================================

\* C20: a domain operation that returned has made exactly one resource call,
\* a GET to its own endpoint (get_session_details: /session, get_accounts:
\* /accounts, get_positions: /positions, search_markets: /markets with the
\* payload {searchTerm: term}), and returns the body of the response as it is.
C20_DomainOperations ==
    \A t \in SeqCallers :
        (pc[t] = "done" /\ args[t].op # "request") =>
            LET others == {i \in 1 .. Len(calls[t]) : ~IsAuthPost(calls[t][i])}
                c == calls[t][Len(calls[t])]
            IN  /\ Cardinality(others) = 1
                /\ c.method = "get"
                /\ c.url = api.base_url \o
                      (CASE args[t].op = "get_session_details" -> "/session"
                         [] args[t].op = "get_accounts" -> "/accounts"
                         [] args[t].op = "get_positions" -> "/positions"
                         [] args[t].op = "search_markets" -> "/markets")
                /\ IF args[t].op = "search_markets"
                   THEN /\ DOMAIN c.data = {"searchTerm"}
                        /\ c.data["searchTerm"] \in SearchTerms
                   ELSE c.data = EmptyDict
                /\ result[t] = [kind |-> "returned", value |-> response[t].data]

\* search_markets("test") returned the body of the response to its GET on
\* /markets
C20_Witness ==
    \E t \in SeqCallers :
        /\ pc[t] = "done"
        /\ args[t].op = "search_markets"
        /\ calls[t][Len(calls[t])].url = "https://demo-api.ig.com/gateway/deal/markets"
        /\ calls[t][Len(calls[t])].data = [k \in {"searchTerm"} |-> "test"]
        /\ result[t].value = [k \in {"status"} |-> "ok"]

\* ======================================================================
\* Session lifecycle over several requests
\* ======================================================================

\* C24: a new client holds the session {cst None, security_token None,
\* expires 0}, which the validity check rejects at every time; the first
\* request made on a client finds the session invalid and authenticates,
\* and its resource call comes after its session POST.
C24_FirstRequestAuthenticates ==
    \A t \in SeqCallers :
        /\ pc[t] = "idle" =>
              /\ session = [cst |-> None, security_token |-> None, expires |-> 0]
              /\ now >= 1
              /\ ~AuthenticationIsValid(session, now)
        /\ first[t] =>
              /\ ~valid[t]
              /\ pc[t] \in {"merge", "send", "done"} => nauth[t] = 1
              /\ \A i \in 1 .. Len(calls[t]) :
                    ~IsAuthPost(calls[t][i]) => (i = 2 /\ IsAuthPost(calls[t][1]))

\* the first request of a client, made at time 3, authenticated and then
\* made its resource call
C24_Witness ==
    \E t \in SeqCallers :
        /\ first[t]
        /\ pc[t] = "done"
        /\ authTime[t] = 3
        /\ nauth[t] = 1
        /\ Len(calls[t]) = 2
        /\ IsAuthPost(calls[t][1])
        /\ ~IsAuthPost(calls[t][2])

\* C25: an authentication whose response has no Access-Control-Max-Age leaves
\* expires as it found it; while expires is 0 the session is invalid, every
\* request has found it invalid, and every request that returned has made
\* one session POST and then its resource call with the tokens it received.
C25_NoHintNeverValid ==
    \A t \in SeqCallers :
        /\ (/\ nauth[t] = 1
            /\ pc[t] \in {"auth_cst", "auth_token", "merge", "send", "done"}
            /\ "Access-Control-Max-Age" \notin DOMAIN resp[t])
           => session.expires = pre[t]
        /\ session.expires = 0 =>
              /\ ~AuthenticationIsValid(session, now)
              /\ pc[t] # "idle" => ~valid[t]
              /\ pc[t] = "done" =>
                    /\ nauth[t] = 1
                    /\ Len(calls[t]) = 2
                    /\ IsAuthPost(calls[t][1])
                    /\ calls[t][2].url = args[t].url
                    /\ calls[t][2].headers["CST"] = resp[t]["CST"]
                    /\ calls[t][2].headers["X-SECURITY-TOKEN"]
                          = resp[t]["X-SECURITY-TOKEN"]

\* a later request of a client whose responses never carried the hint:
\* although the session holds both tokens, the request authenticated again
\* and then made its resource call
C25_Witness ==
    \E t \in SeqCallers :
        /\ ~first[t]
        /\ pc[t] = "done"
        /\ session = [cst |-> "abc", security_token |-> "xyz", expires |-> 0]
        /\ DOMAIN resp[t] = {"CST", "X-SECURITY-TOKEN"}
        /\ nauth[t] = 1
        /\ Len(calls[t]) = 2

\* C26: with non-empty tokens and the expiry e = t + h of an authentication
\* stored, a request entered at a time before e passes the validity check,
\* authenticates zero times and sends the stored tokens; a request entered
\* at a time after e fails the check and authenticates exactly once.
C26_ReuseUntilExpiry ==
    /\ [][\A t \in SeqCallers :
            (/\ pc[t] \in Resting
             /\ pc'[t] \notin Resting
             /\ session.cst \notin {None, ""}
             /\ session.security_token \notin {None, ""}
             /\ session.expires >= 1)
            => /\ now < session.expires => (valid'[t] /\ pc'[t] = "merge")
               /\ now > session.expires => (~valid'[t] /\ pc'[t] = "auth_post")]_vars
    /\ [](\A t \in SeqCallers :
            /\ valid[t] =>
                  /\ nauth[t] = 0
                  /\ \A i \in 1 .. Len(calls[t]) :
                        /\ ~IsAuthPost(calls[t][i])
                        /\ calls[t][i].headers["CST"] = session.cst
                        /\ calls[t][i].headers["X-SECURITY-TOKEN"]
                              = session.security_token
            /\ (~valid[t] /\ pc[t] \notin {"idle", "auth_post"}) =>
                  /\ nauth[t] = 1
                  /\ Cardinality({i \in 1 .. Len(calls[t]) :
                                     IsAuthPost(calls[t][i])}) = 1)

\* a later request, entered before the stored expiry, returned after one
\* resource call with the stored tokens and no authentication
C26_Witness ==
    \E t \in SeqCallers :
        /\ ~first[t]
        /\ pc[t] = "done"
        /\ valid[t]
        /\ now < session.expires
        /\ nauth[t] = 0
        /\ Len(calls[t]) = 1
        /\ calls[t][1].headers["CST"] = session.cst

\* C27: _authenticate is not atomic. The expiry is written first and leaves
\* the tokens alone; when the CST header is missing the KeyError leaves the
\* session as it then is (new expiry, old tokens); when X-SECURITY-TOKEN is
\* missing the new cst stays with the old security_token. A request that
\* follows a KeyError for CST with old tokens stored, at a time up to the
\* new expiry, passes the validity check and does not authenticate.
C27_PartialAuthentication ==
    [][\A t \in SeqCallers :
        /\ (pc[t] = "auth_expires" /\ pc'[t] = "auth_cst") =>
              /\ session'.cst = session.cst
              /\ session'.security_token = session.security_token
              /\ "Access-Control-Max-Age" \in DOMAIN resp[t] =>
                    session'.expires
                        = now + IntOfStr(resp[t]["Access-Control-Max-Age"])
        /\ (pc[t] = "auth_cst" /\ pc'[t] = "raised") =>
              /\ "CST" \notin DOMAIN resp[t]
              /\ result'[t] = [kind |-> "raised", error |-> "KeyError"]
              /\ session' = session
        /\ (pc[t] = "auth_token" /\ pc'[t] = "raised") =>
              /\ "X-SECURITY-TOKEN" \notin DOMAIN resp[t]
              /\ result'[t] = [kind |-> "raised", error |-> "KeyError"]
              /\ session' = session
              /\ session.cst = resp[t]["CST"]
        /\ (/\ pc[t] = "raised"
            /\ pc'[t] \notin Resting
            /\ result[t] = [kind |-> "raised", error |-> "KeyError"]
            /\ "CST" \notin DOMAIN resp[t]
            /\ "Access-Control-Max-Age" \in DOMAIN resp[t]
            /\ session.cst \notin {None, ""}
            /\ session.security_token \notin {None, ""}
            /\ now <= session.expires)
           => (valid'[t] /\ pc'[t] = "merge" /\ session' = session)]_vars

\* a session that had expired with tokens stored: the authentication response
\* had the hint but no CST, the request raised KeyError, and the session now
\* holds the old tokens with the new expiry and passes the validity check
C27_Witness ==
    \E t \in SeqCallers :
        /\ pc[t] = "raised"
        /\ result[t] = [kind |-> "raised", error |-> "KeyError"]
        /\ "CST" \notin DOMAIN resp[t]
        /\ "Access-Control-Max-Age" \in DOMAIN resp[t]
        /\ pre[t] >= 1
        /\ pre[t] < authTime[t]
        /\ session.expires
              = authTime[t] + IntOfStr(resp[t]["Access-Control-Max-Age"])
        /\ session.cst = "abc"
        /\ session.security_token = "xyz"
        /\ AuthenticationIsValid(session, now)

\* C28: a request entered while the stored cst or security_token is the
\* empty string fails the validity check and authenticates, also when
\* expires > now.
C28_EmptyTokenIsAbsent ==
    [][\A t \in SeqCallers :
        (/\ pc[t] \in Resting
         /\ pc'[t] \notin Resting
         /\ (session.cst = "" \/ session.security_token = ""))
        => (~valid'[t] /\ pc'[t] = "auth_post")]_vars

\* an authentication stored CST "" with a security token and an expiry in the
\* future; the next request is about to authenticate again
C28_Witness ==
    \E t \in SeqCallers :
        /\ ~first[t]
        /\ pc[t] = "auth_post"
        /\ ~valid[t]
        /\ session.cst = ""
        /\ session.security_token = "xyz"
        /\ session.expires > now

\* C29: while a request runs, the headers mapping and the payload the caller
\* passed stay as they were passed (the session and credential headers go
\* into a copy), and every resource call carries the payload as passed.
C29_CallerArgumentsUntouched ==
    /\ [][\A t \in SeqCallers :
            pc[t] \notin Resting =>
                /\ args'[t].headers = args[t].headers
                /\ args'[t].data = args[t].data]_vars
    /\ [](\A t \in SeqCallers : \A i \in 1 .. Len(calls[t]) :
            ~IsAuthPost(calls[t][i]) => calls[t][i].data = args[t].data)

\* a request called with headers {version: 3} returned: the call carried
\* CST, X-SECURITY-TOKEN, X-IG-API-KEY and Content-Type, the caller's mapping
\* still holds version only
C29_Witness ==
    \E t \in SeqCallers :
        /\ pc[t] = "done"
        /\ args[t].headers = [k \in {"version"} |-> "3"]
        /\ DOMAIN calls[t][Len(calls[t])].headers
              = {"version", "CST", "X-SECURITY-TOKEN", "X-IG-API-KEY",
                 "Content-Type"}

\* ======================================================================
\* Configuration file and command line
\* ======================================================================

\* the last call into the command line layer was a call of fn
Called(fn) == "fn" \in DOMAIN proc /\ proc.fn = fn

\* C21: when _get is given a range, get_prices is called with the two parsed
\* dates and without a max-points value, also when a max-points value was
\* given, and the query carries from/to and no max; max is in the query only
\* when no range was given.
C21_RangeBeforeMax ==
    Called("_get") =>
        \A i \in 1 .. Len(proc.trace) :
            proc.trace[i].op = "get_prices" =>
                LET kwargs == proc.given.kwargs
                    passed == proc.trace[i].args
                    query == proc.trace[i].call.data
                IN  IF kwargs.range # <<>>
                    THEN /\ passed.start_time # None
                         /\ passed.end_time # None
                         /\ passed.max_data_points = None
                         /\ {"from", "to"} \subseteq DOMAIN query
                         /\ query["from"] = passed.start_time
                         /\ query["to"] = passed.end_time
                         /\ "max" \notin DOMAIN query
                    ELSE /\ DOMAIN query \cap {"from", "to"} = {}
                         /\ "max" \in DOMAIN query <=> kwargs.max_num # None
                         /\ kwargs.max_num # None => query["max"] = kwargs.max_num

\* _get with range (2021/1/20, now) and max_num 10 called get_prices with a
\* query that has from and to and no max
C21_Witness ==
    /\ Called("_get")
    /\ proc.given.kwargs.range = <<"2021/1/20", "now">>
    /\ proc.given.kwargs.max_num = "10"
    /\ proc.out.kind = "returned"
    /\ Len(proc.trace) = 2
    /\ proc.trace[2].op = "get_prices"
    /\ DOMAIN proc.trace[2].call.data = {"resolution", "pageSize", "from", "to"}
    /\ proc.trace[2].call.data["from"] = "datetime(2021, 1, 20)"

\* C22: _parse_date exits with code 1 (after a message) exactly for an
\* expression that is neither "now" in any case, nor a timestamp, nor a
\* relative expression. The process never returns from app: it exits with 2
\* before any command runs when the arguments do not parse (no object or no
\* command included), with 0 only after the command has run, and with 1 only
\* for a range with an unparseable date.
C22_ExitCodes ==
    /\ Called("_parse_date") =>
          IF proc.given.date_expr \in {"now", "NOW", "2021/1/20", "2 days ago"}
          THEN proc.out.kind = "returned"
          ELSE proc.out =
                 [kind |-> "exit", code |-> 1,
                  output |-> "Do not know how to parse datetime: "
                                \o proc.given.date_expr]
    /\ Called("app") =>
          LET argv == proc.given.argv
          IN  /\ proc.out.kind \in {"exit", "raised"}
              /\ proc.out.kind = "exit" => proc.out.code \in {0, 1, 2}
              /\ (argv.object = None \/ argv.command = None) =>
                    proc.out = [kind |-> "exit", code |-> 2]
              /\ (argv.range # <<>> /\ argv.max_num # None) =>
                    proc.out = [kind |-> "exit", code |-> 2]
              /\ (proc.out.kind = "exit" /\ proc.out.code = 2) =>
                    proc.trace = <<>>
              /\ (proc.out.kind = "exit" /\ proc.out.code = 0) =>
                    /\ proc.trace # <<>>
                    /\ argv.object \in {"instrument", "positions", "account"}
                    /\ argv.command \in {"get", "search", "close"}
              /\ (proc.out.kind = "exit" /\ proc.out.code = 1) =>
                    /\ \E i \in 1 .. Len(argv.range) :
                          argv.range[i] = "invalid_data_time_specifier"
                    /\ proc.out.output = "Do not know how to parse datetime: invalid_data_time_specifier"
              /\ (/\ argv.prices
                  /\ \E i \in 1 .. Len(argv.range) :
                        argv.range[i] = "invalid_data_time_specifier"
                  /\ argv.max_num = None
                  /\ Len(proc.trace) = 1
                  /\ proc.out.kind # "raised")
                 => (proc.out.kind = "exit" /\ proc.out.code = 1)

\* pygi instrument get EPIC -p -r 2021/1/20 invalid_data_time_specifier
\* looked the instrument up and exited with code 1
C22_Witness ==
    /\ Called("app")
    /\ proc.given.argv.range = <<"2021/1/20", "invalid_data_time_specifier">>
    /\ proc.out.kind = "exit"
    /\ proc.out.code = 1
    /\ Len(proc.trace) = 1
    /\ proc.trace[1].op = "get_instrument"

\* C23: Configuration.from_file(path) with no file at the path returns an
\* empty configuration and raises nothing.
C23_AbsentFileIsEmpty ==
    Called("from_file") =>
        LET path == proc.given.path
            file == IF path = "~/.pygindex.yaml"
                    THEN fs["/home/user/.pygindex.yaml"] ELSE fs[path]
        IN  file.kind = "absent" =>
                /\ proc.out.kind = "returned"
                /\ DOMAIN proc.out.value = {}

\* from_file("/etc/pygindex.yaml") returned {} with no file there, while the
\* file at the default path exists
C23_Witness ==
    /\ Called("from_file")
    /\ proc.given.path = "/etc/pygindex.yaml"
    /\ fs["/etc/pygindex.yaml"].kind = "absent"
    /\ fs["/home/user/.pygindex.yaml"].kind = "file"
    /\ proc.out = [kind |-> "returned", value |-> <<>>]

\* C30: with no file at the default configuration path, get_api_config() and
\* get_auth_config() without a platform raise KeyError for "platform", and
\* every command, run through app or called directly, ends with that
\* KeyError (or with the parser's exit) before it has called the client.
C30_NoConfigNoNetwork ==
    fs["/home/user/.pygindex.yaml"].kind = "absent" =>
        /\ ((Called("get_api_config") \/ Called("get_auth_config"))
              /\ proc.given.platform = None)
           => proc.out = [kind |-> "raised", error |-> "KeyError",
                          key |-> "platform"]
        /\ Called("_get") =>
              /\ proc.out = [kind |-> "raised", error |-> "KeyError",
                             key |-> "platform"]
              /\ proc.trace = <<>>
        /\ Called("app") =>
              /\ \/ proc.out = [kind |-> "exit", code |-> 2]
                 \/ proc.out = [kind |-> "raised", error |-> "KeyError",
                                key |-> "platform"]
              /\ proc.trace = <<>>

\* pygi account get without a configuration file ended with KeyError
\* 'platform' and no client call
C30_Witness ==
    /\ fs["/home/user/.pygindex.yaml"].kind = "absent"
    /\ Called("app")
    /\ proc.given.argv.object = "account"
    /\ proc.given.argv.command = "get"
    /\ proc.out = [kind |-> "raised", error |-> "KeyError", key |-> "platform"]
    /\ proc.trace = <<>>

====
